---- MODULE Spec2Model ----
(***************************************************************************)
(* A model of the WordPress publishing client of crewai-python-publisher   *)
(* (src/tools/wordpress_poster_tool.py), of run_with_retry (src/main.py)   *)
(* and of the news fetcher (src/tools/news_fetcher_tool.py).               *)
(*                                                                         *)
(* Text is a sequence of symbols: a title or a body text is a sequence of  *)
(* characters, a URL or a configuration value a sequence of segments.      *)
(* Python's None, for a configuration value, is the value Unset.           *)
(*                                                                         *)
(* An exception is a record [kind |-> "raise", exc, msg], msg being the    *)
(* parts of its message in order, so that an f-string that embeds str(e)   *)
(* is the concatenation of its own text and the message of e.              *)
(***************************************************************************)
EXTENDS Integers, Sequences, FiniteSets, TLC

VARIABLES
    environ,        \* os.environ, restricted to the three WORDPRESS_* names
    dotenv_file,    \* the key=value lines of the .env file load_dotenv reads
    post_data,      \* the argument of _run
    op,             \* the operation the caller invoked
    pc,             \* "ready": about to be invoked, "done": it returned or raised
    transport,      \* what the HTTP transport answered to the request of this call
    net,            \* the HTTP requests issued during this call, in order
    cred_calls,     \* how many times _get_credentials ran during this call
    result,         \* what the operation returned or raised
    now,            \* time.time(), in seconds
    _last_request_time,  \* the client's timestamp of its last request
    current_time,   \* _wait_for_rate_limit's local: the clock as it read it on entry
    ret,            \* where _wait_for_rate_limit returns to
    attempt,        \* _make_request_with_retry's loop variable
    last_exception, \* _make_request_with_retry's local
    sleeps,         \* the time.sleep calls of this call, in order
    stamps,         \* the last two values written to _last_request_time
    server_tags,    \* the names of the tags the server has
    tag_name,       \* the argument of _get_or_create_tag
    threads,        \* the threads that call _wait_for_rate_limit on one client
    previous,       \* the endpoint and credentials the call before this one used
    crew,           \* a call of run_with_retry: its arguments, and what it did
    feeds           \* a call of RSSNewsFetcherTool._run: the feeds, and what it returned

pubVars == <<post_data, transport, cred_calls>>

timeVars == <<now, _last_request_time, current_time, ret, attempt, last_exception, sleeps, stamps>>

tagVars == <<server_tags, tag_name>>

vars == <<environ, dotenv_file, op, pc, net, result, pubVars, timeVars, tagVars, threads, previous, crew, feeds>>

-----------------------------------------------------------------------------
(* Values *)

Unset == <<"<None>">>

EnvNames == <<"WORDPRESS_URL", "WORDPRESS_USER", "WORDPRESS_PASS">>

EnvKeys == {EnvNames[i] : i \in 1..Len(EnvNames)}

PostsUrl == <<"https://example.com", "/wp-json", "/wp/v2/posts">>

StrVal(s) == [t |-> "str", v |-> s]

NoneVal == [t |-> "none", v |-> <<>>]

ListVal(l) == [t |-> "list", v |-> l]

SetVal == [t |-> "set", v |-> <<>>]

NoTransport == [exc |-> "", status |-> 0, shape |-> "", has_id |-> FALSE, id |-> 0,
                has_link |-> FALSE, link |-> <<>>]

TransportError(e) == [NoTransport EXCEPT !.exc = e]

Response(status, shape, has_id, has_link) ==
    [exc |-> "", status |-> status, shape |-> shape, has_id |-> has_id,
     id |-> IF has_id THEN 123 ELSE 0, has_link |-> has_link,
     link |-> IF has_link THEN <<"https://x", "/y">> ELSE <<>>]

Raise(exc, msg) == [kind |-> "raise", exc |-> exc, msg |-> msg, data |-> NoTransport]

Return(data) == [kind |-> "return", exc |-> "", msg |-> <<>>, data |-> data]

NoResult == [kind |-> "none", exc |-> "", msg |-> <<>>, data |-> NoTransport]

-----------------------------------------------------------------------------
(* str.strip(), str() *)

Whitespace == {" ", "\n"}

RECURSIVE lstrip(_)
lstrip(s) ==
    IF s = <<>> THEN s
    ELSE IF Head(s) \in Whitespace THEN lstrip(Tail(s)) ELSE s

RECURSIVE rstrip(_)
rstrip(s) ==
    IF s = <<>> THEN s
    ELSE IF s[Len(s)] \in Whitespace THEN rstrip(SubSeq(s, 1, Len(s) - 1)) ELSE s

strip(s) == rstrip(lstrip(s))

str(x) == IF x.t = "str" THEN x.v ELSE <<"N", "o", "n", "e">>

-----------------------------------------------------------------------------
(* Credential resolution *)

load_dotenv(env, file) ==
    [k \in EnvKeys |-> IF env[k] = Unset /\ file[k] # Unset THEN file[k] ELSE env[k]]

Falsy(s) == s = Unset \/ s = <<>>

NotSet(name) == <<name, " not set in environment variables">>

Credentials(url, user, password) == [url |-> url, user |-> user, password |-> password]

\* _get_credentials keeping the credentials of the call before on the client.
_get_credentials_cached(env, file) ==
    LET loaded == load_dotenv(env, file)
        url == IF previous.url # <<>> THEN previous.url ELSE loaded["WORDPRESS_URL"]
        user == IF previous.url # <<>> THEN previous.auth[1] ELSE loaded["WORDPRESS_USER"]
        password == IF previous.url # <<>> THEN previous.auth[2] ELSE loaded["WORDPRESS_PASS"]
    IN  [environ |-> loaded,
         out |->
            IF Falsy(url) THEN Raise("ValueError", NotSet("WORDPRESS_URL"))
            ELSE IF Falsy(user) THEN Raise("ValueError", NotSet("WORDPRESS_USER"))
            ELSE IF Falsy(password) THEN Raise("ValueError", NotSet("WORDPRESS_PASS"))
            ELSE Return(Credentials(url, user, password))]

\* _get_credentials with the username checked before the URL.
_get_credentials_user_first(env, file) ==
    LET loaded == load_dotenv(env, file)
        url == loaded["WORDPRESS_URL"]
        user == loaded["WORDPRESS_USER"]
        password == loaded["WORDPRESS_PASS"]
    IN  [environ |-> loaded,
         out |->
            IF Falsy(user) THEN Raise("ValueError", NotSet("WORDPRESS_USER"))
            ELSE IF Falsy(url) THEN Raise("ValueError", NotSet("WORDPRESS_URL"))
            ELSE IF Falsy(password) THEN Raise("ValueError", NotSet("WORDPRESS_PASS"))
            ELSE Return(Credentials(url, user, password))]

\* The environment as load_dotenv leaves it, and what the checks then return or raise.
_get_credentials(env, file) ==
    LET loaded == load_dotenv(env, file)
        url == loaded["WORDPRESS_URL"]
        user == loaded["WORDPRESS_USER"]
        password == loaded["WORDPRESS_PASS"]
    IN  [environ |-> loaded,
         out |->
            IF Falsy(url) THEN Raise("ValueError", NotSet("WORDPRESS_URL"))
            ELSE IF Falsy(user) THEN Raise("ValueError", NotSet("WORDPRESS_USER"))
            ELSE IF Falsy(password) THEN Raise("ValueError", NotSet("WORDPRESS_PASS"))
            ELSE Return(Credentials(url, user, password))]

-----------------------------------------------------------------------------
(* Response validation *)

ok(response) == ~(response.status >= 400 /\ response.status < 600)

Text(response) == <<"body:", response.shape>>

\* _validate_response without the branch for status 404.
_validate_response_without_404(response) ==
    IF ~ok(response) THEN
        IF response.status = 401
            THEN Raise("ValueError", <<"Authentication failed. Check your WordPress credentials.">>)
        ELSE Raise("ValueError", <<"HTTP error ", ToString(response.status), ": ">> \o Text(response))
    ELSE IF response.shape = "notjson"
        THEN Raise("ValueError", <<"Invalid JSON response: ">> \o Text(response))
    ELSE IF response.shape # "object"
        THEN Raise("ValueError", <<"Invalid response format">>)
    ELSE IF ~response.has_id
        THEN Raise("ValueError", <<"Post ID not found in response">>)
    ELSE Return(response)

\* _validate_response decoding the body before it looks at the status.
_validate_response_decode_first(response) ==
    IF response.shape = "notjson"
        THEN Raise("ValueError", <<"Invalid JSON response: ">> \o Text(response))
    ELSE IF ~ok(response) THEN
        IF response.status = 401
            THEN Raise("ValueError", <<"Authentication failed. Check your WordPress credentials.">>)
        ELSE IF response.status = 404
            THEN Raise("ValueError", <<"API endpoint not found. Check your WordPress URL.">>)
        ELSE Raise("ValueError", <<"HTTP error ", ToString(response.status), ": ">> \o Text(response))
    ELSE IF response.shape # "object"
        THEN Raise("ValueError", <<"Invalid response format">>)
    ELSE IF ~response.has_id
        THEN Raise("ValueError", <<"Post ID not found in response">>)
    ELSE Return(response)

\* _validate_response without the check for the 'id' key.
_validate_response_without_id_check(response) ==
    IF ~ok(response) THEN
        IF response.status = 401
            THEN Raise("ValueError", <<"Authentication failed. Check your WordPress credentials.">>)
        ELSE IF response.status = 404
            THEN Raise("ValueError", <<"API endpoint not found. Check your WordPress URL.">>)
        ELSE Raise("ValueError", <<"HTTP error ", ToString(response.status), ": ">> \o Text(response))
    ELSE IF response.shape = "notjson"
        THEN Raise("ValueError", <<"Invalid JSON response: ">> \o Text(response))
    ELSE IF response.shape # "object"
        THEN Raise("ValueError", <<"Invalid response format">>)
    ELSE Return(response)

_validate_response(response) ==
    IF ~ok(response) THEN
        IF response.status = 401
            THEN Raise("ValueError", <<"Authentication failed. Check your WordPress credentials.">>)
        ELSE IF response.status = 404
            THEN Raise("ValueError", <<"API endpoint not found. Check your WordPress URL.">>)
        ELSE Raise("ValueError", <<"HTTP error ", ToString(response.status), ": ">> \o Text(response))
    ELSE IF response.shape = "notjson"
        THEN Raise("ValueError", <<"Invalid JSON response: ">> \o Text(response))
    ELSE IF response.shape # "object"
        THEN Raise("ValueError", <<"Invalid response format">>)
    ELSE IF ~response.has_id
        THEN Raise("ValueError", <<"Post ID not found in response">>)
    ELSE Return(response)

-----------------------------------------------------------------------------
(* The publishing pipeline *)

required_fields == <<"title", "content", "tags", "categories">>

Field(pd, k) ==
    IF k = "title" THEN pd.title
    ELSE IF k = "content" THEN pd.content
    ELSE IF k = "tags" THEN pd.tags
    ELSE pd.categories

\* json.dumps(post_data) of the debug line: a set is not JSON serializable.
JsonSerializable(pd) == \A k \in pd.keys : Field(pd, k).t # "set"

Missing(pd) == SelectSeq(required_fields, LAMBDA k : k \notin pd.keys)

\* A payload that asks for the post to be published at once.
Payload_publish(title, content, categories) ==
    [title |-> [raw |-> title], content |-> [raw |-> content], status |-> "publish",
     categories |-> categories]

Payload(title, content, categories) ==
    [title |-> [raw |-> title], content |-> [raw |-> content], status |-> "draft",
     categories |-> categories]

Request(method, url, auth, body) == [method |-> method, url |-> url, auth |-> auth, body |-> body]

\* The handler's except clauses: a ValueError is re-raised, any other exception wrapped.
Reraise(e) ==
    IF e.kind # "raise" \/ e.exc = "ValueError" THEN e
    ELSE Raise("RuntimeError", <<"Failed to post to WordPress: ">> \o e.msg)

Outcome(env, requests, lookups, res) ==
    [environ |-> env, net |-> requests, cred_calls |-> lookups, result |-> res]

\* _run(post_data) under the environment env and the .env file, the transport
\* answering t to the request it issues.
_run(pd, env, file, t) ==
    IF ~JsonSerializable(pd) THEN
        Outcome(env, <<>>, 0,
                Reraise(Raise("TypeError", <<"Object of type set is not JSON serializable">>)))
    ELSE IF ~pd.dict THEN
        Outcome(env, <<>>, 0, Reraise(Raise("ValueError", <<"Input must be a dictionary">>)))
    ELSE IF Missing(pd) # <<>> THEN
        Outcome(env, <<>>, 0,
                Reraise(Raise("ValueError", <<"Missing required fields: ">> \o Missing(pd))))
    ELSE
        LET title == strip(str(pd.title))
            content == str(pd.content)
        IN  IF title = <<>> THEN
                Outcome(env, <<>>, 0, Reraise(Raise("ValueError", <<"Title cannot be empty">>)))
            ELSE IF content = <<>> THEN
                Outcome(env, <<>>, 0, Reraise(Raise("ValueError", <<"Content cannot be empty">>)))
            ELSE IF pd.categories.t # "list" THEN
                Outcome(env, <<>>, 0, Reraise(Raise("ValueError", <<"Categories must be a list">>)))
            ELSE IF pd.tags.t # "list" THEN
                Outcome(env, <<>>, 0, Reraise(Raise("ValueError", <<"Tags must be a list">>)))
            ELSE
                LET creds == _get_credentials(env, file)
                    c == creds.out.data
                    request == Request("POST", c.url, <<c.user, c.password>>,
                                       Payload(title, content, pd.categories.v))
                IN  IF creds.out.kind = "raise" THEN
                        Outcome(creds.environ, <<>>, 1, Reraise(creds.out))
                    ELSE IF t.exc # "" THEN
                        Outcome(creds.environ, <<request>>, 1,
                                Reraise(Raise("RuntimeError",
                                              <<"Failed to connect to WordPress: ", t.exc>>)))
                    ELSE
                        Outcome(creds.environ, <<request>>, 1, Reraise(_validate_response(t)))

-----------------------------------------------------------------------------
(* Inputs *)

Ai == <<"a", "i">>

Titles == {StrVal(<<>>), StrVal(<<" ">>), StrVal(<<"T">>), StrVal(<<" ", "T", "\n">>), NoneVal}

Contents == {StrVal(<<>>), StrVal(<<" ">>), StrVal(<<"C">>)}

TagValues == {ListVal(<<>>), ListVal(<<Ai>>), NoneVal, SetVal}

CategoryValues == {ListVal(<<5>>), NoneVal, SetVal}

AllKeys == {required_fields[i] : i \in 1..Len(required_fields)}

Dict(keys, title, content, tags, categories) ==
    [dict |-> TRUE, keys |-> keys, title |-> title, content |-> content, tags |-> tags,
     categories |-> categories]

\* An input that is not a dictionary (a string), which json.dumps accepts.
NotADict == [Dict({}, NoneVal, NoneVal, NoneVal, NoneVal) EXCEPT !.dict = FALSE]

PostDatas ==
    {Dict(AllKeys, t, c, g, k) : t \in Titles, c \in Contents, g \in TagValues, k \in CategoryValues}
    \cup {Dict(AllKeys \ {m}, StrVal(<<"T">>), StrVal(<<"C">>), ListVal(<<Ai>>), ListVal(<<5>>)) :
            m \in {"title", "tags"}}
    \cup {NotADict}

EnvValues(k) ==
    {Unset, <<>>,
     IF k = "WORDPRESS_URL" THEN PostsUrl
     ELSE IF k = "WORDPRESS_USER" THEN <<"testuser">> ELSE <<"testpass">>}

Environs == {e \in [EnvKeys -> UNION {EnvValues(k) : k \in EnvKeys}] : \A k \in EnvKeys : e[k] \in EnvValues(k)}

NoDotenv == [k \in EnvKeys |-> Unset]

DotenvFiles ==
    {NoDotenv, [NoDotenv EXCEPT !["WORDPRESS_URL"] = PostsUrl, !["WORDPRESS_USER"] = <<"fileuser">>]}

Statuses == {200, 201, 301, 400, 401, 404, 500}

Bodies ==
    {Response(0, "notjson", FALSE, FALSE), Response(0, "array", FALSE, FALSE),
     Response(0, "object", FALSE, FALSE), Response(0, "object", FALSE, TRUE),
     Response(0, "object", TRUE, FALSE), Response(0, "object", TRUE, TRUE)}

Responses == {[b EXCEPT !.status = s] : s \in Statuses, b \in Bodies}

RequestExceptions == {"ConnectionError", "Timeout", "TooManyRedirects"}

Transports == Responses \cup {TransportError(e) : e \in RequestExceptions}

-----------------------------------------------------------------------------
(* The parts of the state a specification leaves alone *)

Epoch == 10

CrewResult(kind, exc, msg, value) == [kind |-> kind, exc |-> exc, msg |-> msg, value |-> value]

\* run_with_retry has not been called.
NoCrew ==
    [max_retries |-> 0, outcomes |-> <<>>, kickoffs |-> 0, sleeps |-> <<>>,
     result |-> CrewResult("none", "", <<>>, 0)]

\* The news fetcher has not been called.
NoFeeds == [results |-> <<>>, kind |-> "none", out |-> <<>>]

\* No call has been made on the client yet.
NoPrevious == [url |-> <<>>, auth |-> <<>>]

Threads == {1, 2}

\* A thread that is not inside _wait_for_rate_limit and has not called it yet.
IdleThread == [pc |-> "idle", current_time |-> 0, wake |-> 0, issued |-> 0]

TimeIdle ==
    /\ now = Epoch
    /\ _last_request_time = 0
    /\ current_time = 0
    /\ ret = ""
    /\ attempt = 0
    /\ last_exception = ""
    /\ sleeps = <<>>
    /\ stamps = <<>>
    /\ threads = [t \in Threads |-> IdleThread]

TagsIdle ==
    /\ server_tags = {}
    /\ tag_name = <<>>

PublishIdle ==
    /\ post_data = NotADict
    /\ transport = NoTransport
    /\ cred_calls = 0

FullEnviron ==
    [k \in EnvKeys |->
        IF k = "WORDPRESS_URL" THEN PostsUrl
        ELSE IF k = "WORDPRESS_USER" THEN <<"testuser">> ELSE <<"testpass">>]

-----------------------------------------------------------------------------
(* The client called by its caller: one operation per call *)

Init ==
    /\ environ \in Environs
    /\ dotenv_file \in DotenvFiles
    /\ \/ op = "_run" /\ post_data \in PostDatas /\ transport = NoTransport
       \/ op = "_get_credentials" /\ post_data = NotADict /\ transport = NoTransport
       \/ op = "_validate_response" /\ post_data = NotADict /\ transport \in Responses
    /\ pc = "ready"
    /\ net = <<>>
    /\ cred_calls = 0
    /\ result = NoResult
    /\ TimeIdle
    /\ previous = NoPrevious
    /\ crew = NoCrew
    /\ feeds = NoFeeds
    /\ TagsIdle

Publish ==
    /\ pc = "ready" /\ op = "_run"
    /\ \E t \in Transports :
        LET o == _run(post_data, environ, dotenv_file, t)
        IN  /\ environ' = o.environ
            /\ net' = o.net
            /\ cred_calls' = o.cred_calls
            /\ result' = o.result
            /\ transport' = IF o.net = <<>> THEN NoTransport ELSE t
    /\ pc' = "done"
    /\ UNCHANGED <<crew, feeds, previous, threads, dotenv_file, post_data, op, timeVars, tagVars>>

Resolve ==
    /\ pc = "ready" /\ op = "_get_credentials"
    /\ LET o == _get_credentials(environ, dotenv_file)
       IN  /\ environ' = o.environ
           /\ result' = o.out
    /\ cred_calls' = 1
    /\ pc' = "done"
    /\ UNCHANGED <<crew, feeds, previous, threads, dotenv_file, post_data, op, transport, net, timeVars, tagVars>>

Validate ==
    /\ pc = "ready" /\ op = "_validate_response"
    /\ result' = _validate_response(transport)
    /\ pc' = "done"
    /\ UNCHANGED <<crew, feeds, previous, threads, environ, dotenv_file, post_data, op, transport, net, cred_calls, timeVars, tagVars>>

\* The configuration changes between two calls (os.environ is set or deleted).
Setenv ==
    /\ op # "_validate_response"
    /\ \E k \in EnvKeys : \E v \in EnvValues(k) :
        /\ environ[k] # v
        /\ environ' = [environ EXCEPT ![k] = v]
    /\ pc' = "ready"
    /\ net' = <<>>
    /\ cred_calls' = 0
    /\ result' = NoResult
    /\ transport' = NoTransport
    /\ UNCHANGED <<crew, feeds, previous, threads, dotenv_file, post_data, op, timeVars, tagVars>>

Next == Publish \/ Resolve \/ Validate \/ Setenv

Spec == Init /\ [][Next]_vars

-----------------------------------------------------------------------------
(* Publish calls on one client, the configuration changing between them *)

NewValues(k) ==
    IF k = "WORDPRESS_URL" THEN <<"https://new.example.com", "/wp-json", "/wp/v2/posts">>
    ELSE IF k = "WORDPRESS_USER" THEN <<"newuser">> ELSE <<"newpass">>

GoodRecord == Dict(AllKeys, StrVal(<<"T">>), StrVal(<<"C">>), ListVal(<<Ai>>), ListVal(<<5>>))

ReconfInit ==
    /\ environ \in Environs
    /\ dotenv_file \in DotenvFiles
    /\ op = "_run"
    /\ post_data = GoodRecord
    /\ transport = NoTransport
    /\ pc = "ready"
    /\ net = <<>>
    /\ cred_calls = 0
    /\ result = NoResult
    /\ TimeIdle
    /\ previous = NoPrevious
    /\ crew = NoCrew
    /\ feeds = NoFeeds
    /\ TagsIdle

\* After a call, os.environ is set or deleted; the client is then called again.
Reconfigure ==
    /\ pc = "done" /\ op = "_run"
    /\ \E k \in EnvKeys : \E v \in EnvValues(k) \cup {NewValues(k)} :
        /\ environ[k] # v
        /\ environ' = [environ EXCEPT ![k] = v]
    /\ previous' = IF net # <<>> THEN [url |-> net[1].url, auth |-> net[1].auth] ELSE previous
    /\ pc' = "ready"
    /\ net' = <<>>
    /\ cred_calls' = 0
    /\ result' = NoResult
    /\ transport' = NoTransport
    /\ UNCHANGED <<crew, feeds, threads, dotenv_file, post_data, op, timeVars, tagVars>>

ReconfNext == Publish \/ Reconfigure

SpecReconf == ReconfInit /\ [][ReconfNext]_vars

-----------------------------------------------------------------------------
(* The rate limiter and the retrying request executor, statement by statement *)

_min_request_interval == 2

_max_retries == 3

MaxTime == 18

MaxOversleep == 1

MaxRequestSeconds == 1

\* time.sleep(seconds) suspends for at least the time asked for.
SleepOutcomes(seconds) == {seconds + over : over \in 0..MaxOversleep}

Sleep(why, seconds) == [why |-> why, seconds |-> seconds, after |-> Len(net)]

RetriedExceptions == {"ConnectionError", "Timeout"}

ExecTransports ==
    {TransportError(e) : e \in RetriedExceptions \cup {"InvalidURL"}}
    \cup {Response(200, "object", TRUE, TRUE), Response(404, "object", FALSE, FALSE),
          Response(500, "notjson", FALSE, FALSE)}

\* An except clause that catches every exception.
caught_any_exception(t) == t.exc # ""

\* An except clause that also catches the answers with an error status.
caught_or_error_status(t) == t.exc \in RetriedExceptions \/ t.status >= 400

\* except (requests.ConnectionError, requests.Timeout) as e
caught(t) == t.exc \in RetriedExceptions

sleep_time(time_since_last) == _min_request_interval - time_since_last

\* wait_time computed from the loop variable without the + 1.
wait_time_from_zero(k) == k * 2

wait_time(k) == (k + 1) * 2

\* A loop body that calls the rate limiter on the first attempt only.
attempt_entry_first_only(k) == IF k = 0 THEN "wait_read" ELSE "post"

\* The statement an attempt begins with: self._wait_for_rate_limit().
attempt_entry(k) == "wait_read"

\* retries_left without a bound.
retries_left_always(k) == k >= 0

\* retries_left with the bound off by one.
retries_left_one_more(k) == k < _max_retries

\* The condition under which a failed attempt is followed by another one.
retries_left(k) == k < _max_retries - 1

\* issued_at reusing the clock value read on entry, before the sleep.
issued_at_entry(entered, clock) == entered

\* What _wait_for_rate_limit writes to _last_request_time.
issued_at(entered, clock) == clock

Window(s, x) == IF Len(s) < 2 THEN Append(s, x) ELSE <<s[2], x>>

ClearCall ==
    /\ net' = <<>>
    /\ sleeps' = <<>>
    /\ result' = NoResult

ExecInit ==
    /\ environ = FullEnviron
    /\ dotenv_file = NoDotenv
    /\ op = ""
    /\ pc = "idle"
    /\ net = <<>>
    /\ result = NoResult
    /\ PublishIdle
    /\ TimeIdle
    /\ previous = NoPrevious
    /\ crew = NoCrew
    /\ feeds = NoFeeds
    /\ TagsIdle

\* Time passes between two calls of the client.
Tick ==
    /\ pc = "idle"
    /\ now < MaxTime
    /\ now' = now + 1
    /\ UNCHANGED <<crew, feeds, previous, threads, environ, dotenv_file, op, pc, net, result, pubVars, tagVars,
                   _last_request_time, current_time, ret, attempt, last_exception, sleeps, stamps>>

CallWait ==
    /\ pc = "idle"
    /\ now <= MaxTime
    /\ op' = "_wait_for_rate_limit"
    /\ pc' = "wait_read"
    /\ ret' = "done"
    /\ ClearCall
    /\ UNCHANGED <<crew, feeds, previous, threads, environ, dotenv_file, pubVars, tagVars,
                   now, _last_request_time, current_time, attempt, last_exception, stamps>>

CallExecute ==
    /\ pc = "idle"
    /\ now <= MaxTime
    /\ op' = "_make_request_with_retry"
    /\ pc' = "attempt"
    /\ attempt' = 0
    /\ last_exception' = ""
    /\ ClearCall
    /\ UNCHANGED <<crew, feeds, previous, threads, environ, dotenv_file, pubVars, tagVars,
                   now, _last_request_time, current_time, ret, stamps>>

\* current_time = time.time()
WaitRead ==
    /\ pc = "wait_read"
    /\ current_time' = now
    /\ pc' = "wait_sleep"
    /\ UNCHANGED <<crew, feeds, previous, threads, environ, dotenv_file, op, net, result, pubVars, tagVars,
                   now, _last_request_time, ret, attempt, last_exception, sleeps, stamps>>

\* if time_since_last < self._min_request_interval: time.sleep(sleep_time)
WaitSleep ==
    /\ pc = "wait_sleep"
    /\ LET time_since_last == current_time - _last_request_time
       IN  IF time_since_last < _min_request_interval
           THEN /\ \E slept \in SleepOutcomes(sleep_time(time_since_last)) : now' = now + slept
                /\ sleeps' = Append(sleeps, Sleep("rate", sleep_time(time_since_last)))
           ELSE UNCHANGED <<now, sleeps>>
    /\ pc' = "wait_stamp"
    /\ UNCHANGED <<crew, feeds, previous, threads, environ, dotenv_file, op, net, result, pubVars, tagVars,
                   _last_request_time, current_time, ret, attempt, last_exception, stamps>>

\* self._last_request_time = time.time()
WaitStamp ==
    /\ pc = "wait_stamp"
    /\ _last_request_time' = issued_at(current_time, now)
    /\ stamps' = Window(stamps, issued_at(current_time, now))
    /\ pc' = ret
    /\ UNCHANGED <<crew, feeds, previous, threads, environ, dotenv_file, op, net, result, pubVars, tagVars,
                   now, current_time, ret, attempt, last_exception, sleeps>>

\* for attempt in range(self._max_retries): self._wait_for_rate_limit() ...
\* and the raise that follows the loop.
Attempt ==
    /\ pc = "attempt"
    /\ IF attempt < _max_retries
       THEN /\ pc' = attempt_entry(attempt)
            /\ ret' = "post"
            /\ UNCHANGED result
       ELSE /\ pc' = "done"
            /\ result' = Raise("RuntimeError", <<"Failed to make request: ", last_exception>>)
            /\ UNCHANGED ret
    /\ UNCHANGED <<crew, feeds, previous, threads, environ, dotenv_file, op, net, pubVars, tagVars,
                   now, _last_request_time, current_time, attempt, last_exception, sleeps, stamps>>

\* response = requests.post(...): the answer, and the except clause.
Post ==
    /\ pc = "post"
    /\ \E t \in ExecTransports : \E took \in 0..MaxRequestSeconds :
        /\ net' = Append(net, [method |-> "POST", at |-> now, attempt |-> attempt, answer |-> t])
        /\ now' = now + took
        /\ IF caught(t)
           THEN /\ last_exception' = t.exc
                /\ IF retries_left(attempt)
                   THEN /\ pc' = "backoff"
                        /\ UNCHANGED result
                   ELSE /\ pc' = "done"
                        /\ result' = Raise("RuntimeError",
                                           <<"Failed after ", ToString(_max_retries),
                                             " retries: ", t.exc>>)
           ELSE IF t.exc = ""
           THEN /\ result' = Return(t)
                /\ pc' = "done"
                /\ UNCHANGED last_exception
           ELSE /\ result' = Raise(t.exc, <<t.exc>>)
                /\ pc' = "done"
                /\ UNCHANGED last_exception
    /\ UNCHANGED <<crew, feeds, previous, threads, environ, dotenv_file, op, pubVars, tagVars,
                   _last_request_time, current_time, ret, attempt, sleeps, stamps>>

\* wait_time = (attempt + 1) * 2; time.sleep(wait_time); continue
Backoff ==
    /\ pc = "backoff"
    /\ \E slept \in SleepOutcomes(wait_time(attempt)) : now' = now + slept
    /\ sleeps' = Append(sleeps, Sleep("backoff", wait_time(attempt)))
    /\ attempt' = attempt + 1
    /\ pc' = "attempt"
    /\ UNCHANGED <<crew, feeds, previous, threads, environ, dotenv_file, op, net, result, pubVars, tagVars,
                   _last_request_time, current_time, ret, last_exception, stamps>>

\* The caller has the result; the client is idle until its next call.
Finish ==
    /\ pc = "done"
    /\ pc' = "idle"
    /\ ClearCall
    /\ UNCHANGED <<crew, feeds, previous, threads, environ, dotenv_file, op, pubVars, tagVars,
                   now, _last_request_time, current_time, ret, attempt, last_exception, stamps>>

ExecNext ==
    \/ Tick \/ CallWait \/ CallExecute
    \/ WaitRead \/ WaitSleep \/ WaitStamp
    \/ Attempt \/ Post \/ Backoff \/ Finish

SpecExec == ExecInit /\ [][ExecNext]_vars

\* A statement that can be executed is executed: a request is answered or fails
\* within its timeout, and a sleep returns.
ExecFairness ==
    /\ WF_vars(WaitRead) /\ WF_vars(WaitSleep) /\ WF_vars(WaitStamp)
    /\ WF_vars(Attempt) /\ WF_vars(Post) /\ WF_vars(Backoff)

SpecExecFair == SpecExec /\ ExecFairness

-----------------------------------------------------------------------------
(* _wait_for_rate_limit called by two threads on one client: the statements of *)
(* the threads interleave, and a thread in time.sleep lets the other one run.  *)

ConcInit ==
    /\ environ = FullEnviron
    /\ dotenv_file = NoDotenv
    /\ op = "_wait_for_rate_limit"
    /\ pc = "idle"
    /\ net = <<>>
    /\ result = NoResult
    /\ PublishIdle
    /\ TimeIdle
    /\ previous = NoPrevious
    /\ crew = NoCrew
    /\ feeds = NoFeeds
    /\ TagsIdle

ThreadStep(t, th) == threads' = [threads EXCEPT ![t] = th]

ThreadCall ==
    /\ \E t \in Threads :
        /\ threads[t].pc \in {"idle", "done"}
        /\ ThreadStep(t, [IdleThread EXCEPT !.pc = "wait_read"])
    /\ UNCHANGED <<crew, feeds, previous, environ, dotenv_file, op, pc, net, result, pubVars, timeVars, tagVars>>

\* current_time = time.time()
ThreadRead ==
    /\ \E t \in Threads :
        /\ threads[t].pc = "wait_read"
        /\ ThreadStep(t, [threads[t] EXCEPT !.pc = "wait_sleep", !.current_time = now])
    /\ UNCHANGED <<crew, feeds, previous, environ, dotenv_file, op, pc, net, result, pubVars, timeVars, tagVars>>

\* time_since_last = current_time - self._last_request_time, and the call of
\* time.sleep(sleep_time) when it is less than the interval.
ThreadSleep ==
    /\ \E t \in Threads :
        /\ threads[t].pc = "wait_sleep"
        /\ LET time_since_last == threads[t].current_time - _last_request_time
           IN  IF time_since_last < _min_request_interval
               THEN ThreadStep(t, [threads[t] EXCEPT !.pc = "sleeping",
                                                     !.wake = now + sleep_time(time_since_last)])
               ELSE ThreadStep(t, [threads[t] EXCEPT !.pc = "wait_stamp"])
    /\ UNCHANGED <<crew, feeds, previous, environ, dotenv_file, op, pc, net, result, pubVars, timeVars, tagVars>>

\* time.sleep returns, not before the time asked for has passed.
ThreadWake ==
    /\ \E t \in Threads :
        /\ threads[t].pc = "sleeping"
        /\ now >= threads[t].wake
        /\ ThreadStep(t, [threads[t] EXCEPT !.pc = "wait_stamp"])
    /\ UNCHANGED <<crew, feeds, previous, environ, dotenv_file, op, pc, net, result, pubVars, timeVars, tagVars>>

\* self._last_request_time = time.time(); the caller issues its request on return.
ThreadStamp ==
    /\ \E t \in Threads :
        /\ threads[t].pc = "wait_stamp"
        /\ _last_request_time' = issued_at(threads[t].current_time, now)
        /\ stamps' = Window(stamps, issued_at(threads[t].current_time, now))
        /\ ThreadStep(t, [threads[t] EXCEPT !.pc = "done", !.issued = now])
    /\ UNCHANGED <<crew, feeds, previous, environ, dotenv_file, op, pc, net, result, pubVars, tagVars,
                   now, current_time, ret, attempt, last_exception, sleeps>>

ConcNext == Tick \/ ThreadCall \/ ThreadRead \/ ThreadSleep \/ ThreadWake \/ ThreadStamp

SpecConc == ConcInit /\ [][ConcNext]_vars

-----------------------------------------------------------------------------
(* The tags endpoint of the server, and tag resolution *)

Acai == <<"a", "c", "a", "i">>

New == <<"n", "e", "w">>

TagNames == {Ai, Acai, New}

TagId(name) == IF name = Ai THEN 1 ELSE IF name = Acai THEN 2 ELSE 3

Entry(name) == [id |-> TagId(name), name |-> name]

TagAnswer(fault, exc, status, shape, items) ==
    [fault |-> fault, exc |-> exc, status |-> status, shape |-> shape, items |-> items]

Contains(text, term) ==
    \E i \in 0..(Len(text) - Len(term)) : SubSeq(text, i + 1, i + Len(term)) = term

RECURSIVE Orders(_)
Orders(S) ==
    IF S = {} THEN {<<>>}
    ELSE UNION {{<<x>> \o rest : rest \in Orders(S \ {x})} : x \in S}

\* GET tags?search=term: the tags whose name contains the term, in the server's order.
SearchAnswers(server, term) ==
    {TagAnswer(FALSE, "", 200, "array", [i \in 1..Len(names) |-> Entry(names[i])]) :
        names \in Orders({n \in server : Contains(n, term)})}
    \cup {TagAnswer(TRUE, "ConnectionError", 0, "", <<>>),
          TagAnswer(TRUE, "", 500, "notjson", <<>>),
          TagAnswer(TRUE, "", 200, "notjson", <<>>)}

\* POST tags {name}: the new tag, or the refusal of a name that exists.
CreateAnswers(server, name) ==
    {IF name \in server
     THEN TagAnswer(FALSE, "", 400, "object", <<>>)
     ELSE TagAnswer(FALSE, "", 201, "object", <<Entry(name)>>)}
    \cup {TagAnswer(TRUE, "ConnectionError", 0, "", <<>>),
          TagAnswer(TRUE, "", 500, "notjson", <<>>)}

TagResult(id) == [NoTransport EXCEPT !.has_id = TRUE, !.id = id]

None == NoTransport

split_wp_json(url) ==
    IF \E i \in 1..Len(url) : url[i] = "/wp-json"
    THEN SubSeq(url, 1, (CHOOSE i \in 1..Len(url) :
                            /\ url[i] = "/wp-json"
                            /\ \A j \in 1..(i - 1) : url[j] # "/wp-json") - 1)
    ELSE url

TagsUrl(url) == split_wp_json(url) \o <<"/wp-json", "/wp/v2/tags">>

TagRequest(method, url, auth, body, answer) ==
    [method |-> method, url |-> url, auth |-> auth, body |-> body, answer |-> answer]

\* The first element of a decoded body, read as existing_tags[0]['id'].
first_id(answer) ==
    IF answer.shape = "array" THEN Return(TagResult(answer.items[1].id))
    ELSE Raise("KeyError", <<"0">>)

Truthy(answer) == answer.shape = "object" \/ answer.items # <<>>

\* _get_or_create_tag(tag_name, auth), the server answering g to the search
\* and p to the creation.
_get_or_create_tag(name, auth, env, file, g, p) ==
    LET creds == _get_credentials(env, file)
        tags_url == TagsUrl(creds.out.data.url)
        get == TagRequest("GET", tags_url, auth, [search |-> name], g)
        post == TagRequest("POST", tags_url, auth, [name |-> name], p)
    IN  IF creds.out.kind = "raise" THEN Outcome(creds.environ, <<>>, 1, creds.out)
        ELSE IF g.exc # "" THEN Outcome(creds.environ, <<get>>, 1, Raise(g.exc, <<g.exc>>))
        ELSE IF ok(g) /\ g.shape = "notjson" THEN
            Outcome(creds.environ, <<get>>, 1, Raise("JSONDecodeError", <<"Expecting value">>))
        ELSE IF ok(g) /\ Truthy(g) THEN Outcome(creds.environ, <<get>>, 1, first_id(g))
        ELSE IF p.exc # "" THEN Outcome(creds.environ, <<get, post>>, 1, Raise(p.exc, <<p.exc>>))
        ELSE IF ok(p) THEN
            IF p.shape = "notjson"
            THEN Outcome(creds.environ, <<get, post>>, 1,
                         Raise("JSONDecodeError", <<"Expecting value">>))
            ELSE Outcome(creds.environ, <<get, post>>, 1, Return(TagResult(p.items[1].id)))
        ELSE Outcome(creds.environ, <<get, post>>, 1, Return(None))

TestAuth == <<"testuser", "testpass">>

TagsInit ==
    /\ environ \in {FullEnviron, [FullEnviron EXCEPT !["WORDPRESS_URL"] = Unset]}
    /\ dotenv_file = NoDotenv
    /\ op = "_get_or_create_tag"
    /\ pc = "ready"
    /\ net = <<>>
    /\ result = NoResult
    /\ server_tags \in SUBSET TagNames
    /\ tag_name = <<>>
    /\ PublishIdle
    /\ TimeIdle
    /\ previous = NoPrevious
    /\ crew = NoCrew
    /\ feeds = NoFeeds

Created(requests) ==
    \E i \in 1..Len(requests) :
        requests[i].method = "POST" /\ requests[i].answer.status = 201

RECURSIVE Elapsed(_, _)
\* The time the first n requests of a call have taken.
Elapsed(took, n) == IF n = 0 THEN 0 ELSE Elapsed(took, n - 1) + took[n]

\* The requests of one call with the time each one is issued at: a request is
\* issued as soon as the one before it has been answered.
IssuedAt(requests, start, took) ==
    [i \in 1..Len(requests) |->
        [method |-> requests[i].method, url |-> requests[i].url, auth |-> requests[i].auth,
         body |-> requests[i].body, answer |-> requests[i].answer,
         at |-> start + Elapsed(took, i - 1)]]

ResolveTag ==
    /\ op = "_get_or_create_tag"
    /\ now < MaxTime
    /\ \E name \in TagNames :
        \E g \in SearchAnswers(server_tags, name) : \E p \in CreateAnswers(server_tags, name) :
        \E took \in [1..2 -> 0..MaxRequestSeconds] :
            LET o == _get_or_create_tag(name, TestAuth, environ, dotenv_file, g, p)
            IN  /\ tag_name' = name
                /\ environ' = o.environ
                /\ net' = IssuedAt(o.net, now, took)
                /\ now' = now + Elapsed(took, Len(o.net))
                /\ cred_calls' = o.cred_calls
                /\ result' = o.result
                /\ server_tags' = IF Created(o.net) THEN server_tags \cup {name} ELSE server_tags
    /\ pc' = "done"
    /\ UNCHANGED <<crew, feeds, previous, threads, dotenv_file, op, post_data, transport,
                   _last_request_time, current_time, ret, attempt, last_exception, sleeps, stamps>>

TagsNext == ResolveTag

SpecTags == TagsInit /\ [][TagsNext]_vars

-----------------------------------------------------------------------------
(* _handle_tags(post_id, tag_names, auth): the tags of a post, by name *)

TestPostId == 123

UpdateUrl(url, post_id) == split_wp_json(url) \o <<"/wp-json", "/wp/v2/posts/", ToString(post_id)>>

\* POST posts/<id> {tags}: the post is updated, or the request fails.
UpdateAnswers ==
    {TagAnswer(FALSE, "", 200, "object", <<>>),
     TagAnswer(TRUE, "ConnectionError", 0, "", <<>>),
     TagAnswer(TRUE, "", 500, "notjson", <<>>)}

Resolution(env, server, requests, lookups, tag_ids, raised) ==
    [environ |-> env, server |-> server, net |-> requests, cred_calls |-> lookups,
     tag_ids |-> tag_ids, raised |-> raised]

RECURSIVE ResolveAll(_, _, _, _, _)
\* The loop of _handle_tags over the names, the server answering each request in
\* one of the ways it can: every run of the loop, with the tag_ids it has built or
\* the exception that ended it.
ResolveAll(names, auth, env, file, server) ==
    IF names = <<>> THEN {Resolution(env, server, <<>>, 0, <<>>, NoResult)}
    ELSE UNION {
        LET o == _get_or_create_tag(Head(names), auth, env, file, g, p)
            after == IF Created(o.net) THEN server \cup {Head(names)} ELSE server
        IN  IF o.result.kind = "raise"
            THEN {Resolution(o.environ, after, o.net, o.cred_calls, <<>>, o.result)}
            ELSE {Resolution(r.environ, r.server, o.net \o r.net, o.cred_calls + r.cred_calls,
                             (IF o.result.data.has_id THEN <<o.result.data.id>> ELSE <<>>)
                                \o r.tag_ids,
                             r.raised) :
                    r \in ResolveAll(Tail(names), auth, o.environ, file, after)}
        : g \in SearchAnswers(server, Head(names)), p \in CreateAnswers(server, Head(names))}

\* An early return that first updates the post with no tags.
NoTagsOutcome_updating(post_id, auth, env, server) ==
    Resolution(env, server,
               <<TagRequest("POST", UpdateUrl(env["WORDPRESS_URL"], post_id), auth,
                            [tags |-> <<>>], TagAnswer(FALSE, "", 200, "object", <<>>))>>,
               0, <<>>, Return(None))

\* if not tag_names: return
NoTagsOutcome(post_id, auth, env, server) == Resolution(env, server, <<>>, 0, <<>>, Return(None))

\* _handle_tags(post_id, tag_names, auth) against the server: every outcome.
_handle_tags(post_id, tag_names, auth, env, file, server) ==
    IF tag_names = <<>> THEN {NoTagsOutcome(post_id, auth, env, server)}
    ELSE UNION {
        IF r.raised.kind = "raise" THEN {r}
        ELSE IF r.tag_ids = <<>> THEN {[r EXCEPT !.raised = Return(None)]}
        ELSE
            LET creds == _get_credentials(r.environ, file)
                update(u) == TagRequest("POST", UpdateUrl(creds.out.data.url, post_id), auth,
                                        [tags |-> r.tag_ids], u)
            IN  IF creds.out.kind = "raise"
                THEN {[r EXCEPT !.environ = creds.environ, !.cred_calls = @ + 1,
                                !.raised = creds.out]}
                ELSE {[r EXCEPT !.environ = creds.environ, !.cred_calls = @ + 1,
                                !.net = @ \o <<update(u)>>,
                                !.raised = IF u.exc # "" THEN Raise(u.exc, <<u.exc>>)
                                           ELSE Return(None)] : u \in UpdateAnswers}
        : r \in ResolveAll(tag_names, auth, env, file, server)}

TagLists == {<<>>, <<Ai>>, <<New, New>>, <<Ai, Acai, Ai>>}

HandleInit ==
    /\ environ = FullEnviron
    /\ dotenv_file = NoDotenv
    /\ op = "_handle_tags"
    /\ pc = "ready"
    /\ net = <<>>
    /\ result = NoResult
    /\ post_data \in {[GoodRecord EXCEPT !.tags = ListVal(l)] : l \in TagLists}
    /\ transport = NoTransport
    /\ cred_calls = 0
    /\ server_tags \in SUBSET TagNames
    /\ tag_name = <<>>
    /\ TimeIdle
    /\ previous = NoPrevious
    /\ crew = NoCrew
    /\ feeds = NoFeeds

HandleTags ==
    /\ op = "_handle_tags" /\ pc = "ready"
    /\ \E o \in _handle_tags(TestPostId, post_data.tags.v, TestAuth, environ, dotenv_file,
                              server_tags) :
       \E took \in 0..MaxRequestSeconds :
        /\ environ' = o.environ
        /\ net' = IssuedAt(o.net, now, [i \in 1..Len(o.net) |-> took])
        /\ now' = now + Len(o.net) * took
        /\ cred_calls' = o.cred_calls
        /\ result' = o.raised
        /\ server_tags' = o.server
    /\ pc' = "done"
    /\ UNCHANGED <<crew, feeds, previous, threads, dotenv_file, op, post_data, transport, tag_name,
                   _last_request_time, current_time, ret, attempt, last_exception, sleeps, stamps>>

\* The caller has the outcome; the next call handles another list of names.
NextTags ==
    /\ op = "_handle_tags" /\ pc = "done"
    /\ now < MaxTime
    /\ \E l \in TagLists : post_data' = [post_data EXCEPT !.tags = ListVal(l)]
    /\ pc' = "ready"
    /\ net' = <<>>
    /\ result' = NoResult
    /\ cred_calls' = 0
    /\ UNCHANGED <<crew, feeds, previous, threads, environ, dotenv_file, op, transport, tagVars, timeVars>>

HandleNext == HandleTags \/ NextTags

SpecHandle == HandleInit /\ [][HandleNext]_vars

-----------------------------------------------------------------------------
(* run_with_retry(crew, max_retries) of src/main.py *)

MaxCrewRetries == 4

\* What crew.kickoff() raises that `except Exception` catches.
CrewExceptions == {"ConnectionError", "ValueError"}

\* What the k-th call of crew.kickoff() does: it returns its result, raises an
\* Exception, or is interrupted (KeyboardInterrupt is not an Exception).
KickoffOutcomes == {"ok", "KeyboardInterrupt"} \cup CrewExceptions

\* A wait that does not grow with the attempts.
crew_wait_time_flat(k) == 5

\* wait_time = (attempt + 1) * 5
crew_wait_time(k) == (k + 1) * 5

CrewRun(kickoffs, slept, res) == [kickoffs |-> kickoffs, sleeps |-> slept, result |-> res]

RECURSIVE retry_from(_, _, _, _)
\* The loop `for attempt in range(max_retries)` from attempt k on, outcomes[i]
\* being what the i-th call of crew.kickoff() does.
retry_from(k, outcomes, max_retries, slept) ==
    IF k >= max_retries THEN CrewRun(k, slept, CrewResult("return", "", <<>>, 0))
    ELSE LET e == outcomes[k + 1]
         IN  IF e = "ok" THEN CrewRun(k + 1, slept, CrewResult("return", "", <<>>, k + 1))
             ELSE IF e \notin CrewExceptions
                 THEN CrewRun(k + 1, slept, CrewResult("raise", e, <<e>>, 0))
             ELSE IF k < max_retries - 1
                 THEN retry_from(k + 1, outcomes, max_retries, Append(slept, crew_wait_time(k)))
             ELSE CrewRun(k + 1, slept,
                          CrewResult("raise", "RuntimeError", <<"Workflow failed: ", e>>, 0))

run_with_retry(outcomes, max_retries) == retry_from(0, outcomes, max_retries, <<>>)

RetryInit ==
    /\ environ = FullEnviron
    /\ dotenv_file = NoDotenv
    /\ op = "run_with_retry"
    /\ pc = "ready"
    /\ net = <<>>
    /\ result = NoResult
    /\ PublishIdle
    /\ TagsIdle
    /\ TimeIdle
    /\ previous = NoPrevious
    /\ crew \in {[NoCrew EXCEPT !.max_retries = m, !.outcomes = o] :
                    m \in 0..MaxCrewRetries, o \in [1..MaxCrewRetries -> KickoffOutcomes]}
    /\ feeds = NoFeeds

RunWithRetry ==
    /\ op = "run_with_retry" /\ pc = "ready"
    /\ LET o == run_with_retry(crew.outcomes, crew.max_retries)
       IN  crew' = [crew EXCEPT !.kickoffs = o.kickoffs, !.sleeps = o.sleeps, !.result = o.result]
    /\ pc' = "done"
    /\ UNCHANGED <<feeds, previous, threads, environ, dotenv_file, op, net, result,
                   pubVars, timeVars, tagVars>>

RetryNext == RunWithRetry

SpecRetry == RetryInit /\ [][RetryNext]_vars

-----------------------------------------------------------------------------
(* RSSNewsFetcherTool._run of src/tools/news_fetcher_tool.py *)

MaxEntries == 4

FeedUrls ==
    <<"https://techcrunch.com/feed/", "https://www.theverge.com/rss/index.xml",
      "https://www.wired.com/feed/rss">>

\* What feedparser.parse(url) gives: an exception, or a feed with its bozo flag and
\* its entries, an entry being TRUE when _is_recent accepts it.
Feed(exc, bozo, entries) == [exc |-> exc, bozo |-> bozo, entries |-> entries]

EntryLists == UNION {[1..n -> BOOLEAN] : n \in 0..MaxEntries}

FeedResults ==
    {Feed("URLError", FALSE, <<>>)}
    \cup {Feed("", TRUE, e) : e \in {<<>>, <<TRUE>>}}
    \cup {Feed("", FALSE, e) : e \in EntryLists}

Part(kind, text, entry) == [kind |-> kind, text |-> text, entry |-> entry]

\* f"Title: {title}\nLink: {link}\nSummary: {summary}\n" of entry j of the feed.
Item(url, j) == Part("item", url, j)

\* The indices of the entries _is_recent accepts, in order.
recent(entries) == SelectSeq([j \in 1..Len(entries) |-> j], LAMBDA j : entries[j])

\* A slice that keeps four entries.
top_four(l) == SubSeq(l, 1, IF Len(l) < 4 THEN Len(l) ELSE 4)

\* [...][:3]
top(l) == SubSeq(l, 1, IF Len(l) < 3 THEN Len(l) ELSE 3)

\* What one iteration of `for url in feeds` appends to collected_news.
feed_news(url, feed) ==
    IF feed.exc # "" THEN <<>>
    ELSE IF feed.bozo THEN <<>>
    ELSE IF feed.entries = <<>> THEN <<>>
    ELSE LET recent_entries == top(recent(feed.entries))
         IN  [i \in 1..Len(recent_entries) |-> Item(url, recent_entries[i])]

RECURSIVE collect(_, _)
collect(results, n) ==
    IF n = 0 THEN <<>> ELSE collect(results, n - 1) \o feed_news(FeedUrls[n], results[n])

RECURSIVE join(_, _)
\* sep.join(items)
join(sep, items) ==
    IF Len(items) <= 1 THEN items
    ELSE <<Head(items), Part("text", sep, 0)>> \o join(sep, Tail(items))

NoNewsMessage == <<Part("text", "No news items could be fetched at this time.", 0)>>

news_run(results) ==
    LET collected_news == collect(results, Len(FeedUrls))
    IN  IF collected_news = <<>> THEN NoNewsMessage
        ELSE join("\n---\n", collected_news)

NewsInit ==
    /\ environ = FullEnviron
    /\ dotenv_file = NoDotenv
    /\ op = "RSSNewsFetcherTool._run"
    /\ pc = "ready"
    /\ net = <<>>
    /\ result = NoResult
    /\ PublishIdle
    /\ TagsIdle
    /\ TimeIdle
    /\ previous = NoPrevious
    /\ crew = NoCrew
    /\ feeds \in {[NoFeeds EXCEPT !.results = r] : r \in [1..Len(FeedUrls) -> FeedResults]}

FetchNews ==
    /\ op = "RSSNewsFetcherTool._run" /\ pc = "ready"
    /\ feeds' = [feeds EXCEPT !.kind = "return", !.out = news_run(feeds.results)]
    /\ pc' = "done"
    /\ UNCHANGED <<crew, previous, threads, environ, dotenv_file, op, net, result,
                   pubVars, timeVars, tagVars>>

NewsNext == FetchNews

SpecNews == NewsInit /\ [][NewsNext]_vars

-----------------------------------------------------------------------------
(* Properties of the publishing pipeline, under Spec *)

Published == pc = "done" /\ op = "_run"

Complete(pd) == pd.dict /\ pd.keys = AllKeys

\* A record that passes the validation of step 1 as the specification states it.
ValidRecord(pd) ==
    /\ Complete(pd)
    /\ pd.title.t = "str" /\ pd.title.v # <<>> /\ \E i \in 1..Len(pd.title.v) : pd.title.v[i] \notin Whitespace
    /\ pd.content.t = "str" /\ pd.content.v # <<>>
    /\ pd.tags.t = "list"
    /\ pd.categories.t = "list"

InvalidRecord(pd) ==
    /\ Complete(pd)
    /\ \/ pd.title = StrVal(<<>>)
       \/ pd.content = StrVal(<<>>)
       \/ pd.tags.t # "list"
       \/ pd.categories.t # "list"

\* C1: a publish of a record whose title or content is empty, or whose tags or
\* categories are not a list, fails with a validation error (ValueError), and at
\* that moment no credential lookup and no network request has been made.
C1_InvalidRecordFailsValidation ==
    (Published /\ InvalidRecord(post_data)) =>
        /\ result.kind = "raise"
        /\ result.exc = "ValueError"
        /\ cred_calls = 0
        /\ net = <<>>

\* The part of C1 the code keeps: an invalid record never reaches the credential
\* lookup or the network, and one that json.dumps accepts fails with ValueError.
InvalidRecordStopsEarly ==
    (Published /\ InvalidRecord(post_data)) =>
        /\ result.kind = "raise"
        /\ cred_calls = 0
        /\ net = <<>>
        /\ JsonSerializable(post_data) => result.exc = "ValueError"

IsMissing(k) == environ[k] = Unset \/ environ[k] = <<>>

\* The first of URL, username, secret that is absent or empty, if there is one.
FirstMissing == CHOOSE i \in 1..Len(EnvNames) :
                    /\ IsMissing(EnvNames[i])
                    /\ \A j \in 1..(i - 1) : ~IsMissing(EnvNames[j])

ConfigurationError(name) == Raise("ValueError", <<name, " not set in environment variables">>)

\* C2: credential resolution fails with a configuration error that names the
\* first of endpoint URL, username, secret that is absent or empty, and returns the
\* three values when none is; a publish of a valid record under a configuration
\* with a missing value fails with that same error without any network request.
C2_FirstMissingCredentialNamed ==
    /\ (pc = "done" /\ op = "_get_credentials") =>
            IF \E k \in EnvKeys : IsMissing(k)
            THEN result = ConfigurationError(EnvNames[FirstMissing])
            ELSE result = Return(Credentials(environ["WORDPRESS_URL"], environ["WORDPRESS_USER"],
                                             environ["WORDPRESS_PASS"]))
    /\ (Published /\ ValidRecord(post_data) /\ \E k \in EnvKeys : IsMissing(k)) =>
            /\ result = ConfigurationError(EnvNames[FirstMissing])
            /\ net = <<>>

\* A publish of a valid record with all three values missing has failed naming the URL.
C2_Witness ==
    /\ Published /\ ValidRecord(post_data)
    /\ \A k \in EnvKeys : IsMissing(k)
    /\ result = ConfigurationError("WORDPRESS_URL")
    /\ net = <<>>

\* The ids the record's tag names resolve to, every name resolving to its tag's id.
ResolvedIds(names) == [i \in 1..Len(names) |-> TagId(names[i])]

\* C3: the body of the primary publish POST carries a tags field that equals the
\* ids the record's tag names resolve to, in order.
C3_PublishBodyCarriesTagIds ==
    (Published /\ net # <<>>) =>
        LET body == net[Len(net)].body
        IN  /\ "tags" \in DOMAIN body
            /\ body.tags = ResolvedIds(post_data.tags.v)

AuthenticationError ==
    Raise("ValueError", <<"Authentication failed. Check your WordPress credentials.">>)

EndpointNotFoundError ==
    Raise("ValueError", <<"API endpoint not found. Check your WordPress URL.">>)

Classified(response, res) ==
    /\ response.status = 401 => res = AuthenticationError
    /\ response.status = 404 => res = EndpointNotFoundError
    /\ (response.status = 200 /\ response.shape = "object" /\ response.has_id) =>
            /\ res.kind = "return"
            /\ res.data.id = response.id
            /\ res.data.has_link = response.has_link
            /\ res.data.link = response.link

\* C9: the validator maps a 401 response to the authentication error, a 404
\* response to the endpoint-not-found error and a 200 response whose body is an
\* object with an id to a result with that id and link; publish hands the caller
\* the same outcome for the response to its request.
C9_ValidatorClassifies ==
    /\ (pc = "done" /\ op = "_validate_response") => Classified(transport, result)
    /\ (Published /\ net # <<>> /\ transport.exc = "") => Classified(transport, result)

\* A publish whose request was answered 401 has raised the authentication error.
C9_Witness ==
    /\ Published /\ net # <<>>
    /\ transport.exc = "" /\ transport.status = 401
    /\ result = AuthenticationError

\* C10: a single connection error or timeout of the transport does not fail the
\* publish: the request is issued again.
C10_PublishSurvivesTransientFailure ==
    ~(/\ Published
      /\ Len(net) = 1
      /\ transport.exc \in RetriedExceptions
      /\ result.kind = "raise")

-----------------------------------------------------------------------------
(* Properties of the executor and the rate limiter, under SpecExec *)

Executed == pc = "done" /\ op = "_make_request_with_retry"

Failed(i) == net[i].answer.exc \in RetriedExceptions

\* C4: when attempts 1 and 2 fail with a connection error or a timeout and attempt
\* 3 is answered, the executor returns the answer of attempt 3, and the sleeps since
\* the first request are one of 2 seconds after the first failure and one of 4
\* seconds after the second, none after the last attempt.
C4_TwoFailuresThenSuccess ==
    (Executed /\ Len(net) = 3 /\ Failed(1) /\ Failed(2) /\ net[3].answer.exc = "") =>
        /\ result = Return(net[3].answer)
        /\ SelectSeq(sleeps, LAMBDA z : z.after >= 1) =
                <<[why |-> "backoff", seconds |-> 2, after |-> 1],
                  [why |-> "backoff", seconds |-> 4, after |-> 2]>>

C4_Witness ==
    /\ Executed /\ Len(net) = 3 /\ Failed(1) /\ Failed(2)
    /\ net[3].answer.exc = "" /\ net[3].answer.status = 200
    /\ result.kind = "return"

\* C5: the executor never issues more than 3 requests, and when all 3 fail with a
\* connection error or a timeout it has raised the error that carries the exception
\* of the third attempt.
C5_ThreeFailuresRaise ==
    (op = "_make_request_with_retry") =>
        /\ Len(net) <= 3
        /\ (Len(net) = 3 /\ Failed(1) /\ Failed(2) /\ Failed(3)) =>
                /\ pc = "done"
                /\ result = Raise("RuntimeError",
                                  <<"Failed after ", "3", " retries: ", net[3].answer.exc>>)

\* All three attempts failed, the last one differently from the first two.
C5_Witness ==
    /\ Executed /\ Len(net) = 3
    /\ net[1].answer.exc = "ConnectionError" /\ net[2].answer.exc = "ConnectionError"
    /\ net[3].answer.exc = "Timeout"
    /\ result.kind = "raise"

\* C6: the timestamps two consecutive calls of the rate limiter record are at least
\* the minimum interval (2 seconds) apart, and every call that returns has recorded
\* the time of its return, whether it slept or not.
C6_ConsecutiveStampsApart ==
    /\ Len(stamps) = 2 => stamps[2] - stamps[1] >= 2
    /\ (pc = "done" /\ op = "_wait_for_rate_limit") =>
            /\ _last_request_time = now
            /\ stamps # <<>> /\ stamps[Len(stamps)] = now

\* A second call that came less than the interval after the first one, and slept.
C6_Witness ==
    /\ pc = "done" /\ op = "_wait_for_rate_limit"
    /\ Len(stamps) = 2
    /\ sleeps # <<>>

\* C13: an answer with an HTTP error status (4xx, 5xx) is never retried: it ends
\* the call as its return value, no request and no backoff sleep follows it, and
\* when it answers the first attempt the call has made exactly one request.
C13_ErrorStatusNotRetried ==
    \A i \in 1..Len(net) :
        (op = "_make_request_with_retry" /\ net[i].answer.exc = "" /\ net[i].answer.status >= 400) =>
            /\ i = Len(net)
            /\ pc = "done"
            /\ result = Return(net[i].answer)
            /\ \A k \in 1..Len(sleeps) : sleeps[k].why = "backoff" => sleeps[k].after < i

\* The first attempt is answered 500 and the call returns it after one request.
C13_Witness ==
    /\ Executed /\ Len(net) = 1
    /\ net[1].answer.status = 500
    /\ result = Return(net[1].answer)
    /\ \A k \in 1..Len(sleeps) : sleeps[k].why # "backoff"

-----------------------------------------------------------------------------
(* More properties of the publishing pipeline, under Spec *)

Sent == op = "_run" /\ net # <<>>

\* C14: every body the handler sends to the post endpoint has status "draft", and
\* carries the title and the content each wrapped as {"raw": text}, the text being
\* the stripped title and the content of the record.
C14_BodyIsDraftWithRawText ==
    Sent => \A i \in 1..Len(net) :
        /\ net[i].method = "POST" /\ net[i].url = environ["WORDPRESS_URL"]
        /\ net[i].body.status = "draft"
        /\ DOMAIN net[i].body.title = {"raw"}
        /\ net[i].body.title.raw = strip(str(post_data.title))
        /\ DOMAIN net[i].body.content = {"raw"}
        /\ net[i].body.content.raw = str(post_data.content)

\* A record whose title has surrounding whitespace was sent and answered 201.
C14_Witness ==
    /\ Published /\ Len(net) = 1
    /\ post_data.title = StrVal(<<" ", "T", "\n">>)
    /\ net[1].body.title = [raw |-> <<"T">>]
    /\ transport.status = 201
    /\ result.kind = "return"

\* The validator has judged a response: called directly, or on the answer to the
\* request of the handler.
Validated ==
    /\ pc = "done" /\ transport.exc = ""
    /\ op = "_validate_response" \/ (op = "_run" /\ net # <<>>)

Success2xx == transport.status >= 200 /\ transport.status <= 299

ApiError(response) ==
    Raise("ValueError", <<"HTTP error ", ToString(response.status), ": ">> \o Text(response))

\* C15: a response whose status is outside 200-299 and is neither 401 nor 404, a
\* 3xx included, is classified as the API error that carries the status code and
\* the raw body; it is never returned as a success.
C15_OtherStatusIsApiError ==
    (Validated /\ ~Success2xx /\ transport.status \notin {401, 404}) =>
        result = ApiError(transport)

\* What the code keeps of C15: the statuses from 400 on.
ErrorStatusIsApiError ==
    (Validated /\ transport.status >= 400 /\ transport.status \notin {401, 404}) =>
        result = ApiError(transport)

\* C16: a 2xx response whose body is not decodable JSON, is not an object, or is an
\* object without an id, is rejected with the error of that defect and never
\* returned as a success.
C16_MalformedBodyRejected ==
    (Validated /\ Success2xx) =>
        /\ transport.shape = "notjson" =>
                result = Raise("ValueError", <<"Invalid JSON response: ">> \o Text(transport))
        /\ transport.shape = "array" =>
                result = Raise("ValueError", <<"Invalid response format">>)
        /\ (transport.shape = "object" /\ ~transport.has_id) =>
                result = Raise("ValueError", <<"Post ID not found in response">>)

\* A publish answered 201 with an object that has a link and no id was rejected.
C16_Witness ==
    /\ Published /\ Len(net) = 1
    /\ transport.status = 201 /\ transport.shape = "object"
    /\ ~transport.has_id /\ transport.has_link
    /\ result = Raise("ValueError", <<"Post ID not found in response">>)

\* C17: for a 2xx response with an id, the result has the link of the body when the
\* body has one and the default "URL not available" when it has none, and the id
\* of the body.
C17_LinkDefaultsWhenMissing ==
    (Validated /\ Success2xx /\ transport.shape = "object" /\ transport.has_id) =>
        /\ result.kind = "return"
        /\ result.data.id = transport.id
        /\ result.data.has_link
        /\ result.data.link = IF transport.has_link THEN transport.link
                               ELSE <<"URL not available">>

\* What the code keeps of C17: the result is the decoded body, unchanged.
ResultIsDecodedBody ==
    (Validated /\ Success2xx /\ transport.shape = "object" /\ transport.has_id) =>
        result = Return(transport)

Blank(x) == strip(str(x)) = <<>>

\* C20: a record whose title or content is empty after trimming whitespace is
\* rejected with a validation error, so the title and the content of every record
\* that reaches the network are non-empty when trimmed.
C20_BlankTitleOrContentRejected ==
    /\ Sent => ~Blank(post_data.title) /\ ~Blank(post_data.content)
    /\ (Published /\ Complete(post_data) /\ JsonSerializable(post_data)
           /\ (Blank(post_data.title) \/ Blank(post_data.content))) =>
            /\ net = <<>>
            /\ result.kind = "raise" /\ result.exc = "ValueError"

\* What the code keeps of C20: the title is trimmed before it is tested, the content
\* is tested as it is.
BlankTitleRejected ==
    /\ Sent => ~Blank(post_data.title) /\ str(post_data.content) # <<>>
    /\ (Published /\ Complete(post_data) /\ JsonSerializable(post_data)
           /\ (Blank(post_data.title) \/ str(post_data.content) = <<>>)) =>
            /\ net = <<>>
            /\ result.kind = "raise" /\ result.exc = "ValueError"

\* The error line 291 raises for a failure of the transport.
ConnectError(e) == Raise("RuntimeError", <<"Failed to connect to WordPress: ", e>>)

\* C21: a failure of publish reaches the caller as the error that was raised where
\* it occurred, with no wrapping added: a failure of the transport as the error
\* raised for it, an error of the validator as the validator raised it, and a
\* success is never returned after the request failed.
C21_FailureSurfacesUnwrapped ==
    /\ (Published /\ net # <<>> /\ transport.exc # "") => result = ConnectError(transport.exc)
    /\ (Published /\ net # <<>> /\ transport.exc = "") => result = _validate_response(transport)

\* What the code keeps of C21: a failure of the transport reaches the caller as a
\* RuntimeError, every other failure as the ValueError raised where it occurred.
FailureSurfacesByType ==
    /\ (Published /\ net # <<>> /\ transport.exc # "") =>
            /\ result.kind = "raise" /\ result.exc = "RuntimeError"
            /\ result.msg = <<"Failed to post to WordPress: ">> \o ConnectError(transport.exc).msg
    /\ (Published /\ net # <<>> /\ transport.exc = "") =>
            /\ result = _validate_response(transport)
            /\ result.kind = "raise" => result.exc = "ValueError"

\* C28: for a response with status 400 or above the outcome of the validator is
\* decided by the status alone: 401 is the authentication error and 404 the
\* endpoint-not-found error whatever the body is, decodable or not, and every
\* other status the HTTP error of that status.
C28_StatusDecidesClassification ==
    (Validated /\ transport.status >= 400) =>
        result = IF transport.status = 401 THEN AuthenticationError
                 ELSE IF transport.status = 404 THEN EndpointNotFoundError
                 ELSE ApiError(transport)

\* A 404 response whose body is not JSON was reported as endpoint-not-found.
C28_Witness ==
    /\ pc = "done" /\ op = "_validate_response"
    /\ transport.status = 404 /\ transport.shape = "notjson"
    /\ result = EndpointNotFoundError

C27_WitnessRemoved ==
    /\ Published /\ net = <<>>
    /\ previous.url = PostsUrl
    /\ environ["WORDPRESS_PASS"] = Unset
    /\ result = Raise("ValueError", NotSet("WORDPRESS_PASS"))

InExecute == op = "_make_request_with_retry" /\ pc \notin {"idle", "done"}

Backoffs == SelectSeq(sleeps, LAMBDA x : x.why = "backoff")

\* C23: in the executor every attempt, the first and each retry, is immediately
\* preceded by one call of the rate limiter: the timestamps the rate limiter wrote
\* last are the times the last requests were issued at, and a retry is issued no
\* sooner than its backoff and the minimum interval after the request before it.
C23_EveryAttemptAwaitsSlot ==
    /\ (op = "_make_request_with_retry" /\ pc = "post") =>
            /\ _last_request_time = now
            /\ net # <<>> => stamps = <<net[Len(net)].at, now>>
    /\ (op = "_make_request_with_retry" /\ pc # "post" /\ net # <<>>) =>
            /\ _last_request_time = net[Len(net)].at
            /\ stamps[Len(stamps)] = net[Len(net)].at
            /\ Len(net) >= 2 => stamps = <<net[Len(net) - 1].at, net[Len(net)].at>>
    /\ op = "_make_request_with_retry" =>
            \A i \in 1..(Len(net) - 1) :
                /\ net[i + 1].at - net[i].at >= wait_time(net[i].attempt)
                /\ net[i + 1].at - net[i].at >= _min_request_interval

\* The third attempt was issued after two failures, each attempt with its stamp.
C23_Witness ==
    /\ Executed /\ Len(net) = 3
    /\ stamps = <<net[2].at, net[3].at>>
    /\ result.kind = "return"

\* C24: in the executor an exception that is neither a connection failure nor a
\* timeout leaves the call from the attempt it occurred in: it is the last request,
\* no backoff sleep follows it, and the caller gets that exception, not the error
\* of exhausted retries.
C24_OtherExceptionPropagates ==
    \A i \in 1..Len(net) :
        (op = "_make_request_with_retry" /\ net[i].answer.exc \notin RetriedExceptions \cup {""}) =>
            /\ i = Len(net) /\ net[i].attempt = i - 1
            /\ pc = "done"
            /\ result = Raise(net[i].answer.exc, <<net[i].answer.exc>>)
            /\ Len(Backoffs) = i - 1

\* The second attempt failed with an exception that is not retried.
C24_Witness ==
    /\ Executed /\ Len(net) = 2
    /\ net[1].answer.exc = "Timeout" /\ net[2].answer.exc = "InvalidURL"
    /\ result = Raise("InvalidURL", <<"InvalidURL">>)
    /\ Len(Backoffs) = 1

\* C25: every call of the executor terminates: it returns or raises, after at most
\* 3 requests and at most 2 backoff sleeps, whatever the transport answers.
C25_ExecuteTerminates ==
    /\ [](op = "_make_request_with_retry" => Len(net) <= _max_retries /\ Len(Backoffs) <= _max_retries - 1)
    /\ (InExecute ~> (pc = "done" /\ result.kind \in {"return", "raise"}))

\* A call that ended after three requests and two backoff sleeps.
C25_Witness ==
    /\ Executed /\ Len(net) = 3 /\ Len(Backoffs) = 2
    /\ result.kind = "raise"
    /\ net[3].answer.exc = "ConnectionError"

-----------------------------------------------------------------------------
(* Properties of tag resolution, under SpecTags *)

Resolved == pc = "done" /\ op = "_get_or_create_tag" /\ net # <<>>

NoFault == \A i \in 1..Len(net) : ~net[i].answer.fault

Methods == [i \in 1..Len(net) |-> net[i].method]

\* C7: resolving a name that exists on the server issues one GET and no POST and
\* returns the id of that tag.
C7_ExistingTagOneGet ==
    (Resolved /\ NoFault /\ tag_name \in server_tags /\ ~Created(net)) =>
        /\ Methods = <<"GET">>
        /\ result = Return(TagResult(TagId(tag_name)))

\* C8: resolving a name that does not exist on the server issues one GET, then one
\* POST, and returns the id of the tag it created.
C8_MissingTagGetThenPost ==
    (Resolved /\ NoFault /\ (tag_name \notin server_tags \/ Created(net))) =>
        /\ Methods = <<"GET", "POST">>
        /\ result = Return(TagResult(TagId(tag_name)))

\* What the code keeps of C7 and C8: when the search matches the name alone or
\* nothing, the existing id comes from one GET and a new id from a GET and a POST.
ExactSearchResolves ==
    (Resolved /\ NoFault /\ \A i \in 1..Len(net[1].answer.items) :
                                net[1].answer.items[i].name = tag_name) =>
        /\ Methods = IF Created(net) THEN <<"GET", "POST">> ELSE <<"GET">>
        /\ result = Return(TagResult(TagId(tag_name)))

\* C11: every outbound request is preceded by a call of the rate limiter, so that
\* the rate limiter's timestamp is the time the last request was issued at and any
\* two consecutive requests of the client are at least the minimum interval apart.
C11_EveryRequestAwaitsSlot ==
    Resolved =>
        /\ _last_request_time = net[Len(net)].at
        /\ \A i \in 1..(Len(net) - 1) : net[i + 1].at - net[i].at >= _min_request_interval

\* C12: tag resolution never raises: whatever the search and the creation answer,
\* a call that reached the network returns an id or None.
C12_TagResolutionNeverRaises ==
    Resolved => result.kind = "return"

\* tag.get('name', '').lower() == tag_name.lower()
lower(text) ==
    [i \in DOMAIN text |-> IF text[i] = "A" THEN "a" ELSE IF text[i] = "I" THEN "i" ELSE text[i]]

SameName(a, b) == lower(a) = lower(b)

\* C18: when the search lists tags, the id returned from it is the id of the first
\* listed tag whose name equals the requested name, case-insensitively; the id of a
\* tag that only contains the requested name is never returned.
C18_FirstExactMatchReturned ==
    (Resolved /\ Len(net) = 1 /\ result.kind = "return") =>
        LET items == net[1].answer.items
        IN  \E i \in 1..Len(items) :
                /\ SameName(items[i].name, tag_name)
                /\ \A j \in 1..(i - 1) : ~SameName(items[j].name, tag_name)
                /\ result.data = TagResult(items[i].id)

-----------------------------------------------------------------------------
(* Properties of the rate limiter under concurrent callers, under SpecConc *)

Distance(a, b) == IF a >= b THEN a - b ELSE b - a

\* C19: when two threads call the rate limiter of one client concurrently, its
\* read-check-update is atomic: the requests the two callers issue on return are at
\* least the minimum interval apart, whatever the interleaving.
C19_ConcurrentCallsSpaced ==
    \A a \in Threads : \A b \in Threads \ {a} :
        (threads[a].pc = "done" /\ threads[b].pc = "done") =>
            Distance(threads[a].issued, threads[b].issued) >= _min_request_interval

-----------------------------------------------------------------------------
(* Properties of _handle_tags, under SpecHandle *)

Handled == pc = "done" /\ op = "_handle_tags"

tag_names == post_data.tags.v

\* The requests that create a tag of the given name.
Creations(name) ==
    {i \in 1..Len(net) : /\ net[i].method = "POST"
                         /\ net[i].url = TagsUrl(environ["WORDPRESS_URL"])
                         /\ net[i].body.name = name}

\* The ids the handler has resolved the names to, as it sends them to the post.
SentTagIds == net[Len(net)].body.tags

\* C22: tag resolution is idempotent per name within a run: when a list of names
\* with a repeated name is resolved, each occurrence of a name resolves to the same
\* id, and at most one creation POST is issued for a name.
C22_SameNameSameId ==
    (Handled /\ NoFault /\ tag_names # <<>> /\ result.kind = "return") =>
        /\ net[Len(net)].url = UpdateUrl(environ["WORDPRESS_URL"], TestPostId)
        /\ Len(SentTagIds) = Len(tag_names)
        /\ \A i \in 1..Len(tag_names) : \A j \in 1..Len(tag_names) :
                tag_names[i] = tag_names[j] => SentTagIds[i] = SentTagIds[j]
        /\ \A name \in TagNames : Cardinality(Creations(name)) <= 1

\* What the code keeps of C22: at most one creation POST is issued for a name.
OneCreationPerName ==
    (Handled /\ NoFault) => \A name \in TagNames : Cardinality(Creations(name)) <= 1

\* The value of an empty Python list.
EmptyList == TagAnswer(FALSE, "", 0, "array", <<>>)

-----------------------------------------------------------------------------
(* Properties of run_with_retry, under SpecRetry *)

CrewDone == pc = "done" /\ op = "run_with_retry"

\* The i-th call of crew.kickoff() raised an Exception.
KickoffFailed(i) == crew.outcomes[i] \in CrewExceptions

BackoffUpTo(n) == [k \in 1..n |-> 5 * k]

C29_WitnessExhausted ==
    /\ CrewDone /\ crew.max_retries = 3
    /\ crew.kickoffs = 3 /\ crew.sleeps = <<5, 10>>
    /\ crew.result.exc = "RuntimeError"

-----------------------------------------------------------------------------
(* Properties of the news fetcher, under SpecNews *)

Fetched == pc = "done" /\ op = "RSSNewsFetcherTool._run"

\* The entries of feed i among the items returned, in the order returned.
Contribution(i) ==
    LET items == SelectSeq(feeds.out, LAMBDA x : x.kind = "item" /\ x.text = FeedUrls[i])
    IN  [k \in 1..Len(items) |-> items[k].entry]

\* The feed raised when parsed, is flagged malformed, or has no entries.
FeedFailed(i) ==
    \/ feeds.results[i].exc # ""
    \/ feeds.results[i].bozo
    \/ feeds.results[i].entries = <<>>

\* Entry j is recent and fewer than three recent entries come before it.
AmongFirstThree(i, j) ==
    /\ feeds.results[i].entries[j]
    /\ Cardinality({k \in 1..(j - 1) : feeds.results[i].entries[k]}) < 3

\* C30: the news fetcher never raises and isolates the failures of a feed: a feed
\* that raises when parsed, is malformed or is empty contributes no item, every
\* other feed contributes its first recent entries, at most 3, whatever the other
\* feeds did, and when no feed contributes an item the fixed message is returned.
C30_FeedFailuresIsolated ==
    Fetched =>
        /\ feeds.kind = "return"
        /\ \A i \in 1..Len(FeedUrls) :
            /\ Len(Contribution(i)) <= 3
            /\ FeedFailed(i) => Contribution(i) = <<>>
            /\ ~FeedFailed(i) =>
                    /\ \A j \in 1..Len(feeds.results[i].entries) :
                            AmongFirstThree(i, j) <=>
                                \E k \in 1..Len(Contribution(i)) : Contribution(i)[k] = j
                    /\ \A k \in 1..(Len(Contribution(i)) - 1) :
                            Contribution(i)[k] < Contribution(i)[k + 1]
        /\ (\A i \in 1..Len(FeedUrls) : Contribution(i) = <<>>) <=> feeds.out = NoNewsMessage
        /\ \A k \in 1..(Len(feeds.out) - 1) :
                feeds.out[k].kind = "item" => feeds.out[k + 1].text = "\n---\n"

\* The first feed raised, the second is malformed, and the third, with four recent
\* entries, contributed three items.
C30_Witness ==
    /\ Fetched
    /\ feeds.results[1].exc = "URLError"
    /\ feeds.results[2].bozo /\ feeds.results[2].entries # <<>>
    /\ feeds.results[3].entries = <<TRUE, TRUE, TRUE, TRUE>>
    /\ Contribution(3) = <<1, 2, 3>>
    /\ Len(feeds.out) = 5

====
